---- MODULE Spec2Model ----
(***************************************************************************)
(* A model of wpserve: the gallery server (app/main.py, app/thumbs.py,     *)
(* app/models.py, app/database.py) and the offline importer                *)
(* (app/cli_import.py, app/models/image.py, app/db/database.py).           *)
(*                                                                         *)
(* Paths.  A catalog file_path is a string of the shape                    *)
(*     ["/"] "."^dots stem "." ext                                         *)
(* and is modelled as [slash, dots, stem, ext].  A path below BASE_PATH    *)
(* (an original) is [dots, stem, ext]; a path below THUMBS_ROOT (a         *)
(* thumbnail) is [dots, stem], its extension being always ".jpg".          *)
(***************************************************************************)
EXTENDS Naturals, Sequences, FiniteSets, TLC

\* ------------------------------------------------------------------ bounds

\* Number of Image rows in the server's catalog when the process first starts.
MaxImages == 2

\* How many times GET /image/{id} may rewrite one row's file_path.
MaxDots == 0

\* Worker threads of the server: FastAPI runs each "def" endpoint in a thread
\* pool, so two requests to /api/thumb can be inside ensure_thumbnail at once.
Threads == {"t1", "t2"}

ImageIds == 1 .. MaxImages

Exts == {"png", "jpg"}

\* ------------------------------------------------------------------- state

VARIABLES
    images,      \* committed table "image": id -> row
    tagRows,     \* committed table "tag": id -> row
    image_tag,   \* committed table "image_tag": set of <<image id, tag id>>
    files,       \* originals present below BASE_PATH
    corrupt,     \* originals whose bytes PIL cannot decode
    thumbs,      \* thumbnail path -> [st, writer]
    diskFull,    \* whether writing the thumbnail's bytes fails (encode failure)
    phase,       \* "boot" | "scanning" | "serving" | "crashed"
    scan,        \* the running (or last) startup_scan
    threads,     \* thread -> the /api/thumb request it is handling
    clean,       \* no change from outside startup_scan since it began
    undisturbed, \* 1 when the last scan ran clean and nothing has changed since
    source,      \* the foreign catalog: its image rows by id, with their tags
    local,       \* committed table "images" of the importer's catalog
    localTags,   \* committed table "tags" of the importer's catalog: the names
    pending,     \* Image rows the import session has added and not committed
    destFiles,   \* files below static/images
    imp          \* the running (or last) import_data

srvVars == <<images, tagRows, image_tag, files, corrupt, thumbs, diskFull,
             phase, scan, threads, clean, undisturbed>>

\* -------------------------------------------------------------- path algebra

\* Path("." + file_path): the leading "/" of "/x" becomes "./x", which pathlib
\* normalises to "x"; without a leading "/" the dot becomes part of the name.
DotPath(fp) ==
    [dots |-> IF fp.slash THEN fp.dots ELSE fp.dots + 1,
     stem |-> fp.stem, ext |-> fp.ext]

\* str(Path("." + file_path)): what image_page assigns to image.file_path.
StrDotPath(fp) ==
    [slash |-> FALSE, dots |-> DotPath(fp).dots, stem |-> fp.stem, ext |-> fp.ext]

\* thumb_file_path: THUMBS_ROOT / rel.with_suffix(".jpg").
thumb_file_path(rel) == [dots |-> rel.dots, stem |-> rel.stem]

\* The row the catalog holds for image i when the process first starts:
\* "/<stem>.<ext>", images 2k-1 and 2k sharing a stem (and so a thumbnail).
InitialPath(i) ==
    [slash |-> TRUE, dots |-> 0, stem |-> (i + 1) \div 2,
     ext |-> IF i % 2 = 1 THEN "png" ELSE "jpg"]

InitialRow(i) ==
    [file_path |-> InitialPath(i),
     file_name |-> <<InitialPath(i).stem, InitialPath(i).ext>>,
     file_size |-> 10 + i, width |-> 2 * i, height |-> i]

Originals == {DotPath(InitialPath(i)) : i \in ImageIds}

ThumbPaths == [dots : 0 .. MaxDots + 1, stem : {InitialPath(i).stem : i \in ImageIds}]

NoPath == [slash |-> FALSE, dots |-> 0, stem |-> 0, ext |-> "none"]

\* ------------------------------------------------------------- file system

\* Path.is_file() on an original.
IsFile(f) == f \in files

\* Path.is_file() on a thumbnail: true as soon as the file has been opened for
\* writing, whatever it holds.
ThumbIsFile(d) == thumbs[d].st # "absent"

NoThumb == [st |-> "absent", writer |-> "nobody"]

\* PILImage.open(src) ... im.thumbnail ... im.convert: fails on undecodable bytes
\* and on a source that has gone.
Decodes(src) == IsFile(src) /\ src \notin corrupt

\* im.save(dst): open(dst, "w+b") creates or truncates the file; every byte it
\* will hold is now to be written by this writer.
SaveOpen(th, dst, who) == [th EXCEPT ![dst] = [st |-> "partial", writer |-> who]]

\* im.save(dst) ran to its end.  The file is whole once the writer that last
\* truncated it has written it out; a writer whose file was truncated or
\* unlinked under it changes nothing at the path.
SaveDone(th, dst, who) ==
    IF th[dst].writer = who
    THEN [th EXCEPT ![dst] = [st |-> "complete", writer |-> "nobody"]]
    ELSE th

\* im.save(dst) raised.  Pillow unlinks the path when this call created the file
\* (Image.save: "if created: os.remove(filename)"); wpserve itself removes nothing.
SaveFail(th, dst, who, created) ==
    IF created THEN [th EXCEPT ![dst] = NoThumb]
    ELSE IF th[dst].writer = who
    THEN [th EXCEPT ![dst] = [st |-> "partial", writer |-> "nobody"]]
    ELSE th

\* ----------------------------------------------------------- ensure_thumbnail

\* A cache that never hits: every call generates the thumbnail again.
CacheHitNever(dst) == FALSE

\* ensure_thumbnail counts dst as cached when it is a file.
CacheHit(dst) == ThumbIsFile(dst)

\* The two guards the other way round: a cached thumbnail is returned without a
\* look at the source.
EnsureOutcomeCacheFirst(src, dst) ==
    IF CacheHit(dst) THEN "dst"
    ELSE IF ~IsFile(src) THEN "none"
    ELSE "generate"

\* The two guards that open ensure_thumbnail, in the order the code has them:
\* a missing source is a miss even when the thumbnail is cached.
EnsureOutcome(src, dst) ==
    IF ~IsFile(src) THEN "none"
    ELSE IF CacheHit(dst) THEN "dst"
    ELSE "generate"

\* ensure_thumbnail(src, dst) run from its first line to its return with nothing
\* else running (startup_scan calls it before the server accepts requests):
\* what it returns ("dst" or "none") and the thumbnails it leaves.
ensure_thumbnail(src, dst) ==
    LET outcome == EnsureOutcome(src, dst)
        created == ~ThumbIsFile(dst)
        opened == SaveOpen(thumbs, dst, "scan")
    IN  IF outcome # "generate" THEN [ret |-> outcome, thumbs |-> thumbs]
        ELSE IF ~Decodes(src) THEN [ret |-> "none", thumbs |-> thumbs]
        ELSE IF diskFull
        THEN [ret |-> "none", thumbs |-> SaveFail(opened, dst, "scan", created)]
        ELSE [ret |-> "dst", thumbs |-> SaveDone(opened, dst, "scan")]

\* -------------------------------------------------------------- startup_scan

\* A scan that also drops the rows whose original cannot be decoded.
OriginalMissingOrUndecodable(original) == ~IsFile(original) \/ original \in corrupt

\* startup_scan deletes a row when its original is not a file.
OriginalMissing(original) == ~IsFile(original)

\* A scan that calls ensure_thumbnail for every row it keeps.
NeedsThumbAlways(thumb) == TRUE

\* startup_scan asks for a thumbnail only when there is none yet.
NeedsThumb(thumb) == ~ThumbIsFile(thumb)

RECURSIVE SortedIds(_)
\* The ids of S in ascending order.
SortedIds(S) ==
    IF S = {} THEN <<>>
    ELSE LET m == CHOOSE x \in S : \A y \in S : x <= y
         IN  <<m>> \o SortedIds(S \ {m})

IdleThread ==
    [pc |-> "idle", id |-> 0, fp |-> NoPath, gone |-> FALSE, created |-> FALSE,
     saw |-> "-", ret |-> "-"]

\* A scan: the rows still to visit, the rows passed to session.delete, the rows
\* whose original was gone when it began, and its two counters.
NoScan ==
    [queue |-> <<>>, del |-> {}, gone |-> {}, removed |-> 0, generated |-> 0]

\* The process starts: session_scope() opens a session and the scan loads every
\* Image row.
ScanBegin ==
    /\ phase = "boot"
    /\ phase' = "scanning"
    /\ scan' = [queue |-> SortedIds(DOMAIN images),
                del |-> {},
                gone |-> {i \in DOMAIN images : ~IsFile(DotPath(images[i].file_path))},
                removed |-> 0, generated |-> 0]
    /\ clean' = TRUE
    /\ UNCHANGED <<images, tagRows, image_tag, files, corrupt, thumbs, diskFull,
                   threads, undisturbed>>

\* session.delete(img) with the row removed from the catalog on the spot.
session_delete_committed(imgs, id) == [i \in DOMAIN imgs \ {id} |-> imgs[i]]

\* session.delete(img) marks the row in the session: the catalog keeps it until
\* the session commits.
session_delete(imgs, id) == imgs

\* One turn of "for img in images".
ScanStep ==
    /\ phase = "scanning"
    /\ scan.queue # <<>>
    /\ LET id == Head(scan.queue)
           original == DotPath(images[id].file_path)
           thumb_before == thumb_file_path(original)
           made == ensure_thumbnail(original, thumb_before)
       IN  IF OriginalMissing(original)
           THEN /\ scan' = [scan EXCEPT !.queue = Tail(@), !.del = @ \cup {id},
                                        !.removed = @ + 1]
                /\ images' = session_delete(images, id)
                /\ thumbs' = thumbs
           ELSE IF NeedsThumb(thumb_before)
           THEN /\ scan' = [scan EXCEPT !.queue = Tail(@),
                                        !.generated = IF made.ret = "dst" THEN @ + 1 ELSE @]
                /\ images' = images
                /\ thumbs' = made.thumbs
           ELSE /\ scan' = [scan EXCEPT !.queue = Tail(@)]
                /\ images' = images
                /\ thumbs' = thumbs
    /\ UNCHANGED <<tagRows, image_tag, files, corrupt, diskFull, phase,
                   threads, clean, undisturbed>>

\* The "with" block ends: session.commit() deletes the rows marked for deletion
\* and their image_tag rows; the counters are logged and the server starts serving.
ScanCommit ==
    /\ phase = "scanning"
    /\ scan.queue = <<>>
    /\ images' = [i \in DOMAIN images \ scan.del |-> images[i]]
    /\ image_tag' = {p \in image_tag : p[1] \notin scan.del}
    /\ phase' = "serving"
    /\ undisturbed' = IF clean THEN 1 ELSE 0
    /\ clean' = TRUE
    /\ scan' = NoScan
    /\ UNCHANGED <<tagRows, files, corrupt, thumbs, diskFull, threads>>

\* The process dies inside startup_scan's loop: session.commit() is never
\* reached, so the catalog holds what it held; the thumbnails written stay, and
\* so do the log's "deleting" lines, which scan.del stands for from here on.
ScanCrash ==
    /\ phase = "scanning"
    /\ phase' = "crashed"
    /\ clean' = TRUE
    /\ UNCHANGED <<images, tagRows, image_tag, files, corrupt, thumbs, diskFull,
                   scan, threads, undisturbed>>

\* The crashed process is started again.
Recover ==
    /\ phase = "crashed"
    /\ phase' = "boot"
    /\ scan' = NoScan
    /\ UNCHANGED <<images, tagRows, image_tag, files, corrupt, thumbs, diskFull,
                   threads, clean, undisturbed>>

\* The server process is stopped (its requests finished) and started again.
Restart ==
    /\ phase = "serving"
    /\ \A t \in Threads : threads[t].pc = "idle"
    /\ phase' = "boot"
    /\ UNCHANGED <<images, tagRows, image_tag, files, corrupt, thumbs, diskFull,
                   scan, threads, clean, undisturbed>>

\* ------------------------------------------------------------ the environment

\* What a step changed outside startup_scan is recorded for the scan's guarantees.
Changed ==
    <<images', image_tag', files', thumbs', diskFull'>> #
    <<images, image_tag, files, thumbs, diskFull>>

Recorded ==
    /\ clean' = IF phase = "scanning" THEN clean /\ ~Changed ELSE clean
    /\ undisturbed' = IF Changed THEN 0 ELSE undisturbed

\* Somebody deletes an original from the image tree.
ExternalDelete ==
    /\ \E f \in files : files' = files \ {f}
    /\ UNCHANGED <<images, tagRows, image_tag, corrupt, thumbs, diskFull, phase,
                   scan, threads>>
    /\ Recorded

\* The thumbnail volume fills up, or is given room again.
DiskChange ==
    /\ diskFull' = ~diskFull
    /\ UNCHANGED <<images, tagRows, image_tag, files, corrupt, thumbs, phase,
                   scan, threads>>
    /\ Recorded

\* ------------------------------------------------------- GET /api/thumb/{id}

\* The original and the thumbnail a request computed from the row it read.
Src(t) == DotPath(threads[t].fp)

Dst(t) == thumb_file_path(Src(t))

\* api_thumb up to the call of ensure_thumbnail: session.get, 404 without a row.
ThumbStart(t, id) ==
    /\ phase = "serving"
    /\ threads[t].pc = "idle"
    /\ threads' = [threads EXCEPT ![t] =
         IF id \notin DOMAIN images
         THEN [IdleThread EXCEPT !.pc = "respond", !.id = id, !.ret = "norow"]
         ELSE [IdleThread EXCEPT !.pc = "check", !.id = id,
                                 !.fp = images[id].file_path,
                                 !.gone = ~IsFile(DotPath(images[id].file_path))]]
    /\ UNCHANGED <<images, tagRows, image_tag, files, corrupt, thumbs, diskFull,
                   phase, scan, clean, undisturbed>>

\* ensure_thumbnail: "if not src.is_file(): return None; if dst.is_file(): return dst".
EnsureCheck(t) ==
    /\ threads[t].pc = "check"
    /\ LET outcome == EnsureOutcome(Src(t), Dst(t))
       IN  threads' = [threads EXCEPT ![t] =
             IF outcome = "generate" THEN [@ EXCEPT !.pc = "decode", !.saw = "miss"]
             ELSE [@ EXCEPT !.pc = "respond", !.ret = outcome,
                            !.saw = IF outcome = "dst" THEN "hit" ELSE "-"]]
    /\ UNCHANGED <<images, tagRows, image_tag, files, corrupt, thumbs, diskFull,
                   phase, scan, clean, undisturbed>>

\* ensure_thumbnail: PILImage.open(src), thumbnail, convert; an exception is
\* logged and None returned.
EnsureDecode(t) ==
    /\ threads[t].pc = "decode"
    /\ threads' = [threads EXCEPT ![t] =
         IF Decodes(Src(t)) THEN [@ EXCEPT !.pc = "save"]
         ELSE [@ EXCEPT !.pc = "respond", !.ret = "none"]]
    /\ UNCHANGED <<images, tagRows, image_tag, files, corrupt, thumbs, diskFull,
                   phase, scan, clean, undisturbed>>

\* ensure_thumbnail: im.save(dst) opens dst itself for writing.
EnsureSaveOpen(t) ==
    /\ threads[t].pc = "save"
    /\ threads' = [threads EXCEPT ![t] =
         [@ EXCEPT !.pc = "write", !.created = ~ThumbIsFile(Dst(t))]]
    /\ thumbs' = SaveOpen(thumbs, Dst(t), t)
    /\ UNCHANGED <<images, tagRows, image_tag, files, corrupt, diskFull, phase,
                   scan>>
    /\ Recorded

\* ensure_thumbnail: im.save(dst) writes the JPEG out and returns, or raises; the
\* exception is logged and None returned.
EnsureSaveWrite(t) ==
    /\ threads[t].pc = "write"
    /\ IF diskFull
       THEN /\ thumbs' = SaveFail(thumbs, Dst(t), t, threads[t].created)
            /\ threads' = [threads EXCEPT ![t] = [@ EXCEPT !.pc = "respond", !.ret = "none"]]
       ELSE /\ thumbs' = SaveDone(thumbs, Dst(t), t)
            /\ threads' = [threads EXCEPT ![t] = [@ EXCEPT !.pc = "respond", !.ret = "dst"]]
    /\ UNCHANGED <<images, tagRows, image_tag, files, corrupt, diskFull, phase,
                   scan>>
    /\ Recorded

\* What api_thumb answers once ensure_thumbnail has returned: 404 without a row,
\* 500 "if not thumb or not thumb.is_file()", else 200.
ThumbStatus(t) ==
    IF threads[t].ret = "norow" THEN 404
    ELSE IF threads[t].ret = "none" \/ ~ThumbIsFile(Dst(t)) THEN 500
    ELSE 200

\* What FileResponse(thumb) sends: the file as it is at the thumbnail's path.
ThumbBody(t) == thumbs[Dst(t)].st

\* api_thumb answers and its session is closed.
ThumbRespond(t) ==
    /\ threads[t].pc = "respond"
    /\ ThumbStatus(t) \in {200, 404, 500}
    /\ threads' = [threads EXCEPT ![t] = IdleThread]
    /\ UNCHANGED <<images, tagRows, image_tag, files, corrupt, thumbs, diskFull,
                   phase, scan, clean, undisturbed>>

\* ------------------------------------------------------------ the other routes

\* Tag ids in the order of their names ("sunset" < "v").
TagsByName == <<1, 2>>

TagHasImages(g) == \E p \in image_tag : p[2] = g

\* GET /: the tags that have images, by name, and the number of images.
IndexResponse ==
    [status |-> 200, tags |-> SelectSeq(TagsByName, TagHasImages),
     total_images |-> Cardinality(DOMAIN images)]

index ==
    /\ phase = "serving"
    /\ IndexResponse.status = 200
    /\ UNCHANGED <<images, tagRows, image_tag, files, corrupt, thumbs, diskFull,
                   phase, scan, threads, clean, undisturbed>>

\* GET /tag/{tag_id}: the tag's images sorted by id; 404 without the tag.
TagResponse(tag_id) ==
    IF tag_id \notin DOMAIN tagRows THEN [status |-> 404, images |-> <<>>]
    ELSE [status |-> 200,
          images |-> SortedIds({p[1] : p \in {q \in image_tag : q[2] = tag_id}})]

tag_page(tag_id) ==
    /\ phase = "serving"
    /\ TagResponse(tag_id).status \in {200, 404}
    /\ UNCHANGED <<images, tagRows, image_tag, files, corrupt, thumbs, diskFull,
                   phase, scan, threads, clean, undisturbed>>

\* GET /image/{image_id}: "image.file_path = str(Path('.' + image.file_path))"
\* changes the loaded row, and get_session's session_scope commits the session
\* when the request is over: the UPDATE reaches the table unless the new path
\* is another row's (file_path is unique; the commit fails and is rolled back).
image_page(image_id) ==
    /\ phase = "serving"
    /\ IF image_id \notin DOMAIN images
       THEN images' = images
       ELSE LET shown == StrDotPath(images[image_id].file_path)
                taken == \E j \in DOMAIN images :
                            j # image_id /\ images[j].file_path = shown
            IN  /\ shown.dots <= MaxDots
                /\ images' = IF taken THEN images
                             ELSE [images EXCEPT ![image_id].file_path = shown]
    /\ UNCHANGED <<tagRows, image_tag, files, corrupt, thumbs, diskFull, phase,
                   scan, threads>>
    /\ Recorded

\* GET /api/images: every image, by id.
ApiImagesResponse == [status |-> 200, images |-> SortedIds(DOMAIN images)]

api_images ==
    /\ phase = "serving"
    /\ ApiImagesResponse.status = 200
    /\ UNCHANGED <<images, tagRows, image_tag, files, corrupt, thumbs, diskFull,
                   phase, scan, threads, clean, undisturbed>>

\* GET /api/raw/{image_id}: 404 without the row or without the file at
\* IMAGES_ROOT / file_path, a tree other than the one below BASE_PATH, so
\* whether the file is there is the environment's choice.
RawResponse(image_id, is_file) ==
    [status |-> IF image_id \in DOMAIN images /\ is_file THEN 200 ELSE 404]

api_raw(image_id) ==
    /\ phase = "serving"
    /\ {RawResponse(image_id, is_file).status : is_file \in BOOLEAN} \subseteq {200, 404}
    /\ UNCHANGED <<images, tagRows, image_tag, files, corrupt, thumbs, diskFull,
                   phase, scan, threads, clean, undisturbed>>

\* GET /healthz.
health ==
    /\ phase = "serving"
    /\ UNCHANGED <<images, tagRows, image_tag, files, corrupt, thumbs, diskFull,
                   phase, scan, threads, clean, undisturbed>>

\* ------------------------------------------------------ the server's behaviours

InitServer ==
    /\ images = [i \in ImageIds |-> InitialRow(i)]
    /\ tagRows = [g \in {1, 2} |-> [name |-> IF g = 1 THEN "sunset" ELSE "v"]]
    /\ image_tag = {<<i, 2>> : i \in ImageIds} \cup {<<1, 1>>}
    /\ files \in SUBSET Originals
    /\ corrupt \in SUBSET files
    /\ thumbs = [d \in ThumbPaths |-> NoThumb]
    /\ diskFull \in BOOLEAN
    /\ phase = "boot"
    /\ scan = NoScan
    /\ threads = [t \in Threads |-> IdleThread]
    /\ clean = TRUE
    /\ undisturbed = 0

\* ============================================================== cli_import

\* Rows of the foreign catalog.
MaxSource == 2

\* Calls of import_data.
MaxRuns == 2

\* "if imported % 100 == 0: session.commit()".
CommitEvery == 100

SUPPORTED_EXT == {"jpg", "jpeg", "png", "gif", "webp"}

\* str.lower() on a suffix.
Lower(ext) == IF ext = "JPG" THEN "jpg" ELSE ext

\* Path(file_name).suffix.lower().
Suffix(file_name) == Lower(file_name.ext)

\* File names of the foreign catalog: "1.JPG" and "2.bmp".
SourceNames ==
    {[kind |-> "name", n |-> 1, ext |-> "JPG"], [kind |-> "name", n |-> 2, ext |-> "bmp"]}

\* A row of the foreign catalog's image table, joined with its tag names;
\* on_disk says whether copy_from / ("." + file_path) exists.
SourceRows ==
    [file_name : SourceNames, tags : {{}, {"v", "sunset"}}, on_disk : BOOLEAN,
     width : {0, 3}, height : {2}, file_size : {7}]

\* A row some earlier tool put into the local catalog under a source's name.
KnownRow ==
    [filename |-> [kind |-> "name", n |-> 1, ext |-> "JPG"], width |-> 3,
     height |-> 2, file_size |-> 7, tags |-> {"v"}, src |-> 0]

Modes == {"copy", "link", "skip"}

NoImport ==
    [pc |-> "idle", mode |-> "-", rows |-> 0, idx |-> 0, imported |-> 0,
     skipped |-> 0, runs |-> 0, uuids |-> 0, thumb |-> "-", tag_cache |-> {}]

\* f"{uuid.uuid4().hex}{ext}": a name no earlier call of uuid4 has produced.
NewFilename(k, ext) == [kind |-> "uuid", n |-> k, ext |-> ext]

\* An importer that measures the file instead: a width it cannot read from the
\* source's record becomes the decoded image's.
NewImageMeasured(new_filename, i) ==
    [filename |-> new_filename,
     width |-> IF source[i].width = 0 THEN 1 ELSE source[i].width,
     height |-> source[i].height, file_size |-> source[i].file_size,
     tags |-> source[i].tags, src |-> i]

\* Image(filename=new_filename, width=width, height=height, file_size=file_size)
\* with the source's tags attached; src remembers the source row it came from.
NewImage(new_filename, i) ==
    [filename |-> new_filename, width |-> source[i].width,
     height |-> source[i].height, file_size |-> source[i].file_size,
     tags |-> source[i].tags, src |-> i]

\* session.query(Image).filter(Image.filename == file_name).first(): the session
\* does not autoflush, so the query sees the committed rows only.
AlreadyPresent(file_name) == \E r \in local : r.filename = file_name

\* "SELECT ... FROM image ORDER BY id", with " LIMIT n" added "if limit": the
\* number of rows fetched (limit 0 stands for None, and is as falsy).
RowsFetched(limit) ==
    IF limit # 0 /\ limit < Len(source) THEN limit ELSE Len(source)

\* import_data refuses a mode it does not know and a source catalog that is not
\* there (SystemExit) before it touches anything.
ImportAbort ==
    /\ imp.pc \in {"idle", "done", "aborted"}
    /\ \E mode \in {"copy", "move"}, source_db_exists \in BOOLEAN :
         /\ mode \notin Modes \/ ~source_db_exists
         /\ imp' = [imp EXCEPT !.pc = "aborted", !.mode = "-", !.thumb = "-"]
    /\ UNCHANGED <<source, local, localTags, pending, destFiles>>

\* import_data down to the loop: the rows are fetched, the tags grouped, the
\* session opened, tag_cache loaded, the counters zeroed.
ImportStart ==
    /\ imp.pc \in {"idle", "done", "aborted"}
    /\ imp.runs < MaxRuns
    /\ \E mode \in Modes, limit \in {0, 1} :
         imp' = [imp EXCEPT !.pc = "loop", !.mode = mode,
                            !.rows = RowsFetched(limit),
                            !.idx = 1, !.imported = 0, !.skipped = 0,
                            !.runs = @ + 1, !.thumb = "-",
                            !.tag_cache = localTags]
    /\ UNCHANGED <<source, local, localTags, pending, destFiles>>

\* One turn of "for img_id, file_path, file_name, ... in rows".
ImportRow ==
    /\ imp.pc = "loop"
    /\ imp.idx <= imp.rows
    /\ LET row == source[imp.idx]
           ext == Suffix(row.file_name)
           new_filename == NewFilename(imp.uuids + 1, ext)
           img == NewImage(new_filename, imp.idx)
           brought == imp.mode \in {"copy", "link"}
           batch == (imp.imported + 1) % CommitEvery = 0
       IN  IF "v" \notin row.tags
           THEN /\ imp' = [imp EXCEPT !.idx = @ + 1, !.thumb = "-"]
                /\ UNCHANGED <<local, localTags, pending, destFiles>>
           ELSE IF ext \notin SUPPORTED_EXT \/ AlreadyPresent(row.file_name)
                   \/ ~row.on_disk
           THEN /\ imp' = [imp EXCEPT !.idx = @ + 1, !.skipped = @ + 1, !.thumb = "-"]
                /\ UNCHANGED <<local, localTags, pending, destFiles>>
           ELSE /\ \E thumb_ok \in BOOLEAN :
                     imp' = [imp EXCEPT !.idx = @ + 1, !.imported = @ + 1,
                                !.uuids = @ + 1,
                                !.thumb = IF ~brought THEN "-"
                                          ELSE IF thumb_ok THEN "saved" ELSE "failed",
                                !.tag_cache = @ \cup row.tags]
                /\ destFiles' = IF brought THEN destFiles \cup {new_filename}
                                ELSE destFiles
                /\ localTags' = localTags \cup row.tags
                /\ local' = IF batch THEN local \cup pending \cup {img} ELSE local
                /\ pending' = IF batch THEN {} ELSE pending \cup {img}
    /\ UNCHANGED source

\* The loop is over: session.commit(), the session closed, the report printed.
ImportFinish ==
    /\ imp.pc = "loop"
    /\ imp.idx > imp.rows
    /\ local' = local \cup pending
    /\ pending' = {}
    /\ imp' = [imp EXCEPT !.pc = "done", !.thumb = "-", !.tag_cache = {}]
    /\ UNCHANGED <<source, localTags, destFiles>>

impVars == <<source, local, localTags, pending, destFiles, imp>>

vars == <<srvVars, impVars>>

\* No import is running and none has run.
ImportIdle ==
    /\ source = <<>>
    /\ local = {}
    /\ localTags = {}
    /\ pending = {}
    /\ destFiles = {}
    /\ imp = NoImport

\* The server is not running.
ServerDown ==
    /\ images = [i \in ImageIds |-> InitialRow(i)]
    /\ tagRows = [g \in {1, 2} |-> [name |-> IF g = 1 THEN "sunset" ELSE "v"]]
    /\ image_tag = {<<i, 2>> : i \in ImageIds} \cup {<<1, 1>>}
    /\ files = Originals
    /\ corrupt = {}
    /\ thumbs = [d \in ThumbPaths |-> NoThumb]
    /\ diskFull = FALSE
    /\ phase = "boot"
    /\ scan = NoScan
    /\ threads = [t \in Threads |-> IdleThread]
    /\ clean = TRUE
    /\ undisturbed = 0

InitImport ==
    /\ ServerDown
    /\ source \in [1 .. MaxSource -> SourceRows]
    /\ local \in {{}, {KnownRow}}
    /\ localTags = UNION {r.tags : r \in local}
    /\ pending = {}
    /\ destFiles = {}
    /\ imp = NoImport

NextImport ==
    \/ ImportAbort
    \/ ImportStart
    \/ ImportRow
    \/ ImportFinish

\* The importer run against a foreign catalog, any number of times.
SpecImport == InitImport /\ [][NextImport /\ UNCHANGED srvVars]_vars

\* ============================================================ specifications

\* The server with the requests to /api/thumb handled by the workers W.
NextServer(W) ==
    \/ ScanBegin
    \/ ScanStep
    \/ ScanCommit
    \/ Restart
    \/ ExternalDelete
    \/ DiskChange
    \/ \E t \in W, id \in ImageIds : ThumbStart(t, id)
    \/ \E t \in W : EnsureCheck(t)
    \/ \E t \in W : EnsureDecode(t)
    \/ \E t \in W : EnsureSaveOpen(t)
    \/ \E t \in W : EnsureSaveWrite(t)
    \/ \E t \in W : ThumbRespond(t)
    \/ index
    \/ \E g \in {1, 2, 3} : tag_page(g)
    \/ \E id \in ImageIds : image_page(id)
    \/ api_images
    \/ \E id \in ImageIds : api_raw(id)
    \/ health

\* One request to /api/thumb at a time.
NextSerial == NextServer({"t1"})

\* Requests to /api/thumb overlapping.
NextRace == NextServer(Threads)

Init == InitServer /\ ImportIdle

\* The server, one request to /api/thumb at a time.
Spec == Init /\ [][NextSerial /\ UNCHANGED impVars]_vars

\* The server, requests to /api/thumb overlapping.
SpecRace == Init /\ [][NextRace /\ UNCHANGED impVars]_vars

\* The server, one request at a time, with a process that may die in its scan.
NextCrash == NextSerial \/ ScanCrash \/ Recover

SpecCrash == Init /\ [][NextCrash /\ UNCHANGED impVars]_vars

\* ==================================================================== claims

\* The original and the thumbnail of row i as the catalog has it now.
OriginalOf(i) == DotPath(images[i].file_path)

ThumbOf(i) == thumb_file_path(OriginalOf(i))

\* startup_scan has left its loop: its counters are what it logs, and the rows
\* it passed to session.delete go with the commit that ends the "with" block.
ScanOver == phase = "scanning" /\ scan.queue = <<>>

\* The step that commits the scan.
ScanCommits == phase = "scanning" /\ phase' = "serving"

\* C1: when startup_scan completes, a row has been deleted exactly when its
\* original was absent (nothing from outside having touched the tree meanwhile),
\* a row whose original is present is kept even if its thumbnail could not be
\* made, removed is the number of rows deleted, and the commit removes those
\* rows and no other, leaving the rest as they were.
C1_ScanDeletesExactlyTheMissing ==
    /\ [](phase = "scanning" => scan.removed = Cardinality(scan.del))
    /\ [](ScanOver /\ clean =>
             scan.del = {i \in DOMAIN images : ~IsFile(OriginalOf(i))})
    /\ [][ScanCommits =>
             /\ DOMAIN images' = DOMAIN images \ scan.del
             /\ \A i \in DOMAIN images' : images'[i] = images[i]]_vars

\* A scan that deleted a row and kept another whose original is there but
\* cannot be decoded, so that no thumbnail was made for it.
C1_Witness ==
    /\ ScanOver /\ clean
    /\ scan.del # {}
    /\ \E i \in DOMAIN images \ scan.del :
         /\ OriginalOf(i) \in files \cap corrupt
         /\ ~ThumbIsFile(ThumbOf(i))

\* C2: with src present, a call of ensure_thumbnail that finds dst present
\* returns dst without decoding and without writing; a call that made the
\* thumbnail leaves it whole and it stays, so that the next call with the same
\* inputs is such a call.
C2_SecondCallIsANoOp ==
    [][/\ \A t \in Threads :
            threads[t].pc = "check" /\ threads'[t] # threads[t]
              /\ IsFile(Src(t)) /\ ThumbIsFile(Dst(t))
            => /\ threads'[t].pc = "respond"
               /\ threads'[t].ret = "dst"
               /\ thumbs' = thumbs
       /\ \A t \in Threads :
            threads[t].pc = "write" /\ threads'[t].ret = "dst"
            => thumbs'[Dst(t)].st = "complete"
       /\ phase = "scanning" /\ scan'.generated > scan.generated
            => thumbs'[ThumbOf(Head(scan.queue))].st = "complete"
       /\ \A d \in ThumbPaths :
            thumbs[d].st = "complete" => thumbs'[d] = thumbs[d]]_vars

\* A call that found src and a whole thumbnail at dst and returned dst.
C2_Witness ==
    \E t \in Threads :
        /\ threads[t].pc = "respond"
        /\ threads[t].saw = "hit"
        /\ threads[t].ret = "dst"
        /\ IsFile(Src(t))
        /\ thumbs[Dst(t)].st = "complete"

\* C3: GET /api/thumb/{id} for a row whose original has been deleted answers 500
\* as long as the row is there, a cached thumbnail or not; the next startup_scan
\* deletes the row, and from then on the answer is 404.
C3_GoneOriginal500Then404 ==
    /\ [](\A t \in Threads :
             threads[t].pc = "respond" =>
                 /\ threads[t].id \in DOMAIN images /\ threads[t].gone
                      => ThumbStatus(t) = 500
                 /\ threads[t].id \notin DOMAIN images => ThumbStatus(t) = 404)
    /\ [](ScanOver => scan.gone \subseteq scan.del)
    /\ [][ScanCommits => DOMAIN images' \cap scan.del = {}]_vars

\* A request for a row whose original is gone and whose thumbnail is cached,
\* about to be answered 500.
C3_Witness ==
    \E t \in Threads :
        /\ threads[t].pc = "respond"
        /\ threads[t].id \in DOMAIN images
        /\ threads[t].gone
        /\ thumbs[Dst(t)].st = "complete"
        /\ ThumbStatus(t) = 500

\* C4: a second import_data against the same source catalog, after one that
\* ran to its end, imports nothing.
C4_RerunImportsNothing ==
    imp.pc = "done" /\ imp.runs >= 2 => imp.imported = 0

\* C5: an import that finishes has counted every row it read, as imported or as
\* skipped.
C5_EveryRowCounted ==
    imp.pc = "done" => imp.imported + imp.skipped = imp.rows

\* C6: while the server serves, no request changes a row of the catalog.
C6_RequestsLeaveTheCatalog ==
    [][phase = "serving" /\ phase' = "serving" =>
          /\ images' = images
          /\ tagRows' = tagRows
          /\ image_tag' = image_tag]_vars

\* C7: a startup_scan that follows one that ran to its end, nothing having
\* changed the tree or the catalog since that one began, deletes no row and
\* makes no thumbnail.
C7_SecondScanDoesNothing ==
    ScanOver /\ clean /\ undisturbed = 1 =>
        scan.removed = 0 /\ scan.generated = 0

\* Such a second scan, over a row whose thumbnail neither scan could make.
C7_Witness ==
    /\ ScanOver /\ clean /\ undisturbed = 1
    /\ \E i \in DOMAIN images :
         /\ OriginalOf(i) \in files \cap corrupt
         /\ ~ThumbIsFile(ThumbOf(i))

\* Whether a call other than t's is writing t's thumbnail.
OtherWriter(t) ==
    \E u \in Threads \ {t} : threads[u].pc = "write" /\ Dst(u) = Dst(t)

\* C8: a call of ensure_thumbnail that found dst absent ends, once no other
\* call is writing dst, with dst returned and a whole JPEG there, or with a
\* miss returned and no partial file there.
C8_WholeThumbnailOrNone ==
    \A t \in Threads :
        threads[t].pc = "respond" /\ threads[t].saw = "miss" /\ ~OtherWriter(t)
        => \/ threads[t].ret = "dst" /\ thumbs[Dst(t)].st = "complete"
           \/ threads[t].ret = "none" /\ thumbs[Dst(t)].st # "partial"

\* C9, as the spec has it: every Image row has a positive width, height and size.
C9_PositiveDimensions ==
    \A r \in local \cup pending :
        r.width > 0 /\ r.height > 0 /\ r.file_size > 0

\* C9, amended: every row the importer inserts carries the width, height and
\* size of its source record as they are.
C9_DimensionsVerbatim ==
    \A r \in local \cup pending :
        r.src # 0 =>
            /\ r.width = source[r.src].width
            /\ r.height = source[r.src].height
            /\ r.file_size = source[r.src].file_size

\* A committed row of width 0, imported from a source record of width 0.
C9_Witness ==
    \E r \in local : r.src # 0 /\ r.width = 0 /\ source[r.src].width = 0

\* C10: no call of ensure_thumbnail returns dst, and no request sends it, while
\* the file there is one another call has not finished writing.
C10_NoPartialThumbnailSeen ==
    \A t \in Threads :
        threads[t].pc = "respond" /\ threads[t].ret = "dst"
        => thumbs[Dst(t)].st # "partial"

\* C11, as the spec has it: a removal startup_scan has decided is in the catalog
\* before the scan takes up a later row, and so survives a crash of the scan.
C11_RemovalsCommittedPerRow ==
    [][/\ phase = "scanning" /\ phase' = "scanning" /\ scan' # scan
            => scan.del \cap DOMAIN images = {}
       /\ phase = "scanning" /\ phase' = "crashed"
            => scan.del \cap DOMAIN images' = {}]_vars

\* C11, amended: startup_scan commits once, when its loop has ended. Until then
\* every row it has decided to remove is still in the catalog, a crash of the
\* scan leaves the catalog as it was, with all of those rows in it, and the one
\* commit removes them together.
C11_RemovalsCommittedAtEnd ==
    /\ [](phase \in {"scanning", "crashed"} => scan.del \subseteq DOMAIN images)
    /\ [][phase = "scanning" /\ phase' \in {"scanning", "crashed"}
             => images' = images /\ image_tag' = image_tag]_vars
    /\ [][ScanCommits /\ scan.del # {}
             => scan.del \cap DOMAIN images' = {}]_vars

\* A scan that died part-way, after deciding a removal: the row is in the catalog.
C11_Witness ==
    /\ phase = "crashed"
    /\ scan.queue # <<>>
    /\ \E i \in scan.del : i \in DOMAIN images /\ ~IsFile(OriginalOf(i))

====
